---- MODULE Spec2Model ----
(***************************************************************************)
(* Model of virtualbox/vbox-clean-snapshots.py: one run of main(), which   *)
(* lists the snapshots of a VM, selects the subtree of a root snapshot     *)
(* minus the protected snapshots, asks for confirmation and deletes the    *)
(* selection in reverse order.  The collaborators of vboxcommon are the    *)
(* environment: the lister returns a text or fails, the VM state query     *)
(* returns a state, the deleter succeeds or fails.                         *)
(*                                                                         *)
(* Python strings are sequences of one-character strings, so that          *)
(* str.lower, str.startswith, the `in` operator and str.split are computed *)
(* on characters as the interpreter computes them.                         *)
(***************************************************************************)
EXTENDS Integers, Sequences, FiniteSets, TLC

\* ------------------------------------------------------------------ bounds
\* Largest number of snapshots in the listing of the VM.
MaxSnapshots == 3

\* ------------------------------------------------------- string primitives
UpperCase == <<"A","B","C","D","E","F","G","H","I","J","K","L","M",
               "N","O","P","Q","R","S","T","U","V","W","X","Y","Z">>
LowerCase == <<"a","b","c","d","e","f","g","h","i","j","k","l","m",
               "n","o","p","q","r","s","t","u","v","w","x","y","z">>
Digits == {"0","1","2","3","4","5","6","7","8","9"}

\* the lower case letter of every upper case letter
LowerTable ==
    [c \in {UpperCase[k] : k \in 1..26} |->
        LowerCase[CHOOSE k \in 1..26 : UpperCase[k] = c]]

\* str.lower() on one character
LowerChar(c) == IF c \in DOMAIN LowerTable THEN LowerTable[c] ELSE c

\* str.lower()
lower(s) == [k \in 1..Len(s) |-> LowerChar(s[k])]

\* s.startswith(p)
startswith(s, p) ==
    /\ Len(p) <= Len(s)
    /\ \A k \in 1..Len(p) : s[k] = p[k]

\* p in s  (substring test of str.__contains__)
contains(s, p) ==
    \E k \in 0..(Len(s) - Len(p)) : SubSeq(s, k + 1, k + Len(p)) = p

\* s.split(",")
RECURSIVE split(_)
split(s) ==
    IF \A k \in 1..Len(s) : s[k] # ","
    THEN <<s>>
    ELSE LET c == CHOOSE k \in 1..Len(s) :
                      s[k] = "," /\ \A j \in 1..(k - 1) : s[j] # ","
         IN  <<SubSeq(s, 1, c - 1)>> \o split(SubSeq(s, c + 1, Len(s)))

\* reversed(seq) forgotten: the sequence in its own order
reversed_forward(seq) == seq

\* reversed(seq)
reversed(seq) == [k \in 1..Len(seq) |-> seq[Len(seq) - k + 1]]

\* ----------------------------------------------- the text of the listing
SnapshotName == <<"S","n","a","p","s","h","o","t","N","a","m","e">>
SnapshotUUID == <<"S","n","a","p","s","h","o","t","U","U","I","D">>
CurrentSnapshotName == <<"C","u","r","r","e","n","t">> \o SnapshotName
CurrentSnapshotUUID == <<"C","u","r","r","e","n","t">> \o SnapshotUUID
CurrentSnapshotNode ==
    <<"C","u","r","r","e","n","t","S","n","a","p","s","h","o","t","N","o","d","e">>

\* (?:-\d+)* matched against the whole of s
RECURSIVE SuffixChain(_)
SuffixChain(s) ==
    \/ s = <<>>
    \/ /\ Len(s) >= 2
       /\ s[1] = "-"
       /\ \E n \in 2..Len(s) :
            /\ \A k \in 2..n : s[k] \in Digits
            /\ SuffixChain(SubSeq(s, n + 1, Len(s)))

\* ^SnapshotName(?:-\d+)* followed by =" : the key of a line is the text
\* before its = sign, so the group must be the whole key
snapshot_regex(key) ==
    /\ startswith(key, SnapshotName)
    /\ SuffixChain(SubSeq(key, Len(SnapshotName) + 1, Len(key)))

\* re.findall(snapshot_regex, snapshots_info, flags=re.M): the
\* (snapshotid, snapshot_name) pairs of the matching lines, in text order
RECURSIVE findall(_)
findall(info) ==
    IF info = <<>> THEN <<>>
    ELSE (IF snapshot_regex(Head(info).key)
          THEN <<[id |-> Head(info).key, name |-> Head(info).value]>>
          ELSE <<>>) \o findall(Tail(info))

\* ----------------------------------------------------------- input sets
\* Snapshot identifiers VBoxManage may print: a root, two of its children
\* whose identifiers differ by a trailing digit, and a grandchild.
IdSet == { SnapshotName,
           SnapshotName \o <<"-","1">>,
           SnapshotName \o <<"-","1","-","1">>,
           SnapshotName \o <<"-","1","0">> }

NameSet == { <<>>,
             <<"R","O","O","T">>,
             <<"S","n","a","p">>,
             <<"D","o","n","e">> }

\* values of --root_snapshot; <<>> is the default
RootArgs == { <<>>, <<"s","n","a","p">>, <<"z","z">> }

\* the default of --protected_snapshots
DefaultProtected == <<"c","l","e","a","n",",","d","o","n","e">>

\* values of --protected_snapshots
ProtectedArgs == { DefaultProtected, <<>>, <<"S","n">> }

\* what the user may type at the prompt
Answers == { <<"y">>, <<"Y">>, <<"y","e","s">>, <<>>, <<"n">> }

\* what get_vm_state may return
VmStates == { "poweroff", "running" }

UUIDValue == <<"8","6","b">>

\* the two lines VBoxManage prints for one snapshot
SnapshotLines(e) ==
    << [key |-> e.id, value |-> e.name],
       [key |-> SnapshotUUID \o SubSeq(e.id, Len(SnapshotName) + 1, Len(e.id)),
        value |-> UUIDValue] >>

\* the three lines VBoxManage prints for the current snapshot
CurrentLines(e) ==
    << [key |-> CurrentSnapshotName, value |-> e.name],
       [key |-> CurrentSnapshotUUID, value |-> UUIDValue],
       [key |-> CurrentSnapshotNode, value |-> e.id] >>

\* the machine readable listing of the snapshots es, the first being current
RECURSIVE ListingFrom(_, _)
ListingFrom(es, k) ==
    IF k > Len(es) THEN <<>>
    ELSE SnapshotLines(es[k])
         \o (IF k = 1 THEN CurrentLines(es[k]) ELSE <<>>)
         \o ListingFrom(es, k + 1)

\* sequences of at most MaxSnapshots snapshots with distinct identifiers
SnapshotSeqs ==
    UNION { { es \in [1..n -> [id : IdSet, name : NameSet]] :
                \A a, b \in 1..n : a # b => es[a].id # es[b].id }
            : n \in 0..MaxSnapshots }

\* ------------------------------------------------- get_snapshot_children
NoId == <<>>

\* `answer` before input() returns
NoAnswer == <<"<unset>">>

\* root resolution that falls back to the first listed snapshot when no name
\* matches
RECURSIVE FindRoot_fallback(_, _, _)
FindRoot_fallback(snapshots, root_snapshot_name, found) ==
    IF snapshots = <<>> THEN found
    ELSE FindRoot_fallback(Tail(snapshots), root_snapshot_name,
                  IF \/ lower(Head(snapshots).name) = lower(root_snapshot_name)
                     \/ found = <<>>
                  THEN Head(snapshots).id
                  ELSE found)

\* the last snapshot whose name matches, None when there is none
RECURSIVE FindRoot(_, _, _)
FindRoot(snapshots, root_snapshot_name, found) ==
    IF snapshots = <<>> THEN found
    ELSE FindRoot(Tail(snapshots), root_snapshot_name,
                  IF lower(Head(snapshots).name) = lower(root_snapshot_name)
                  THEN Head(snapshots).id
                  ELSE found)

\* the protection test without the two .lower() calls
IsProtected_cs(snapshot_name, protected_snapshots) ==
    \E k \in 1..Len(protected_snapshots) :
        contains(snapshot_name, protected_snapshots[k])

\* any(p.lower() in snapshot_name.lower() for p in protected_snapshots)
IsProtected(snapshot_name, protected_snapshots) ==
    LET name == lower(snapshot_name)
    IN  \E k \in 1..Len(protected_snapshots) :
            contains(name, lower(protected_snapshots[k]))

\* candidates by path segments: the root or an identifier that continues the
\* root's with a further "-" segment
IsCandidate_segments(snapshotid, root_id) ==
    /\ startswith(snapshotid, root_id)
    /\ \/ Len(snapshotid) = Len(root_id)
       \/ snapshotid[Len(root_id) + 1] = "-"

\* line 74: the candidates of the subtree are the snapshots whose identifier
\* starts with the identifier of the root
IsCandidate(snapshotid, root_id) == startswith(snapshotid, root_id)

\* selection that also skips everything below a protected candidate
Children_subtree(snapshots, root_id, protected_snapshots) ==
    LET below(s) == \E k \in 1..Len(snapshots) :
                        /\ startswith(snapshots[k].id, root_id)
                        /\ IsProtected(snapshots[k].name, protected_snapshots)
                        /\ startswith(s.id, snapshots[k].id)
        kept(s)  == startswith(s.id, root_id) /\ ~below(s)
    IN  SelectSeq(snapshots, kept)

\* lines 73-78: the candidates that are not protected, in listing order
Children(snapshots, root_id, protected_snapshots) ==
    LET kept(s) == /\ IsCandidate(s.id, root_id)
                   /\ ~IsProtected(s.name, protected_snapshots)
    IN  SelectSeq(snapshots, kept)

\* lines 72-80: dependant_child, set when a candidate is protected
DependantChild(snapshots, root_id, protected_snapshots) ==
    \E k \in 1..Len(snapshots) :
        /\ IsCandidate(snapshots[k].id, root_id)
        /\ IsProtected(snapshots[k].name, protected_snapshots)

\* the propagation rule left out: the root stays among the children
RemoveRoot_keep(children, root_id) == children

\* lines 85-87: the children without the root snapshot
RemoveRoot(children, root_id) ==
    LET notroot(s) == s.id # root_id
    IN  SelectSeq(children, notroot)

get_snapshot_children(info, root_snapshot_name, protected_snapshots) ==
    LET found     == findall(info)
        root_id   == FindRoot(found, root_snapshot_name, NoId)
        dependant == DependantChild(found, root_id, protected_snapshots)
        children  == Children(found, root_id, protected_snapshots)
    IN  IF root_id = NoId
        THEN [ok |-> FALSE, snapshots |-> found, root |-> NoId,
              dependant |-> FALSE, children |-> <<>>]
        ELSE [ok |-> TRUE, snapshots |-> found, root |-> root_id,
              dependant |-> dependant,
              children |-> IF dependant THEN RemoveRoot(children, root_id)
                           ELSE children]

\* ------------------------------------------------------------------ state
VARIABLES
    pc,                 \* position of the run
    snapshots_info,     \* text returned by the snapshot lister
    root_snapshot,      \* args.root_snapshot
    protected_snapshots,\* args.protected_snapshots
    snapshots,          \* get_snapshot_children: the pairs found by the regex
    root_snapshotid,    \* get_snapshot_children: resolved root identifier
    dependant_child,    \* get_snapshot_children: a candidate was protected
    snaps_to_delete,    \* delete_snapshot_and_children: the selection
    vm_state,           \* result of get_vm_state, "unknown" before the query
    answer,             \* result of input(), NoAnswer before the prompt
    deleter_calls,      \* the (snapshotid, snapshot_name) of each iteration
                        \* of the loop; the name goes to `snapshot VM delete`
    output              \* DELETED / ERROR lines printed by the loop

vars == << pc, snapshots_info, root_snapshot, protected_snapshots, snapshots,
           root_snapshotid,
           dependant_child, snaps_to_delete, vm_state, answer, deleter_calls,
           output >>

inputs == << snapshots_info, root_snapshot, protected_snapshots >>

\* parse_args on --protected_snapshots: the type= lambda applied to the
\* argument, or to the default when the option is absent
ParseProtected(arg) == split(arg)

Selection == get_snapshot_children(snapshots_info, root_snapshot, protected_snapshots)

Init ==
    /\ pc = "start"
    /\ snapshots_info \in { ListingFrom(es, 1) : es \in SnapshotSeqs }
    /\ root_snapshot \in RootArgs
    /\ protected_snapshots \in { ParseProtected(arg) : arg \in ProtectedArgs }
    /\ snapshots = <<>>
    /\ root_snapshotid = NoId
    /\ dependant_child = FALSE
    /\ snaps_to_delete = <<>>
    /\ vm_state = "unknown"
    /\ answer = NoAnswer
    /\ deleter_calls = <<>>
    /\ output = <<>>

\* run_vboxmanage fails to list the snapshots: the exception is wrapped and
\* leaves main
ListingFails ==
    /\ pc = "start"
    /\ pc' = "failed"
    /\ UNCHANGED << inputs, snapshots, root_snapshotid, dependant_child,
                    snaps_to_delete, vm_state, answer, deleter_calls, output >>

\* no name matches the root name (or nothing is listed, and the message of
\* the exception cannot be formatted): the exception is wrapped and leaves
\* main
RootNotFound ==
    /\ pc = "start"
    /\ LET r == Selection
       IN  /\ ~r.ok
           /\ snapshots' = r.snapshots
    /\ pc' = "failed"
    /\ UNCHANGED << inputs, root_snapshotid, dependant_child, snaps_to_delete,
                    vm_state, answer, deleter_calls, output >>

\* the selection is empty: "<vm> is clean"
IsClean ==
    /\ pc = "start"
    /\ LET r == Selection
       IN  /\ r.ok
           /\ r.children = <<>>
           /\ snapshots' = r.snapshots
           /\ root_snapshotid' = r.root
           /\ dependant_child' = r.dependant
    /\ snaps_to_delete' = <<>>
    /\ pc' = "done"
    /\ UNCHANGED << inputs, vm_state, answer, deleter_calls, output >>

\* the selection is printed and the VM state queried, up to the prompt
ListAndQueryState ==
    /\ pc = "start"
    /\ LET r == Selection
       IN  /\ r.ok
           /\ r.children # <<>>
           /\ snapshots' = r.snapshots
           /\ root_snapshotid' = r.root
           /\ dependant_child' = r.dependant
           /\ snaps_to_delete' = r.children
    /\ vm_state' \in VmStates
    /\ pc' = "confirm"
    /\ UNCHANGED << inputs, answer, deleter_calls, output >>

\* a confirmation that accepts every answer beginning with y
IsYes_prefix(a) == Len(a) >= 1 /\ lower(a)[1] = "y"

\* answer.lower() == "y"
IsYes(a) == lower(a) = <<"y">>

\* the user answers the prompt
Confirm ==
    /\ pc = "confirm"
    /\ answer' \in Answers
    /\ pc' = IF IsYes(answer') THEN "deleting" ELSE "done"
    /\ UNCHANGED << inputs, snapshots, root_snapshotid, dependant_child, snaps_to_delete,
                    vm_state, deleter_calls, output >>

\* the snapshot the loop handles next
NextSnapshot == reversed(snaps_to_delete)[Len(deleter_calls) + 1]

\* where the loop goes after one more iteration
AfterIteration ==
    IF Len(deleter_calls) + 1 = Len(snaps_to_delete) THEN "done" ELSE "deleting"

\* one iteration of the loop, run_vboxmanage succeeds
DeleteOk ==
    /\ pc = "deleting"
    /\ Len(deleter_calls) < Len(snaps_to_delete)
    /\ deleter_calls' = Append(deleter_calls, NextSnapshot)
    /\ output' = Append(output, "DELETED")
    /\ pc' = AfterIteration
    /\ UNCHANGED << inputs, snapshots, root_snapshotid, dependant_child, snaps_to_delete,
                    vm_state, answer >>

\* a failed deletion that ends the loop
DeleteError_abort ==
    /\ pc = "deleting"
    /\ Len(deleter_calls) < Len(snaps_to_delete)
    /\ deleter_calls' = Append(deleter_calls, NextSnapshot)
    /\ output' = Append(output, "ERROR")
    /\ pc' = "done"
    /\ UNCHANGED << inputs, snapshots, root_snapshotid, dependant_child, snaps_to_delete,
                    vm_state, answer >>

\* one iteration of the loop, run_vboxmanage raises and the error is printed
DeleteError ==
    /\ pc = "deleting"
    /\ Len(deleter_calls) < Len(snaps_to_delete)
    /\ deleter_calls' = Append(deleter_calls, NextSnapshot)
    /\ output' = Append(output, "ERROR")
    /\ pc' = AfterIteration
    /\ UNCHANGED << inputs, snapshots, root_snapshotid, dependant_child, snaps_to_delete,
                    vm_state, answer >>

Next ==
    \/ ListingFails
    \/ RootNotFound
    \/ IsClean
    \/ ListAndQueryState
    \/ Confirm
    \/ DeleteOk
    \/ DeleteError

Spec == Init /\ [][Next]_vars

TypeOK ==
    /\ pc \in {"start", "failed", "confirm", "deleting", "done"}
    /\ Len(deleter_calls) <= Len(snaps_to_delete)
    /\ Len(output) = Len(deleter_calls)

\* ------------------------------------------------------------ properties
\* the (snapshotid, snapshot_name) pairs of the listing
Listed == snapshots

\* the root was resolved and the selection made
Resolved == pc \in {"confirm", "deleting", "done"}

\* p is a prefix of s, character by character
CharPrefix(p, s) == Len(p) <= Len(s) /\ SubSeq(s, 1, Len(p)) = p

\* entry p occurs in name as a substring when case is ignored
NameHasEntry(name, p) ==
    LET n == lower(name)
        e == lower(p)
    IN  \E a \in 1..(Len(n) - Len(e) + 1) : SubSeq(n, a, a + Len(e) - 1) = e

\* name holds an entry of the protected-name list
NameProtected(name) ==
    \E k \in 1..Len(protected_snapshots) :
        NameHasEntry(name, protected_snapshots[k])

InSelection(s) == \E k \in 1..Len(snaps_to_delete) : snaps_to_delete[k] = s

PassedToDeleter(s) == \E k \in 1..Len(deleter_calls) : deleter_calls[k] = s

\* a is a proper ancestor of d in the snapshot tree: d's path continues a's
\* with further "-<digits>" segments
IsAncestor(a, d) ==
    /\ Len(a) < Len(d)
    /\ SubSeq(d, 1, Len(a)) = a
    /\ d[Len(a) + 1] = "-"

Affirmative == answer = <<"y">> \/ answer = <<"Y">>

\* C1: the deleter is never invoked on a snapshot whose name contains, case
\* ignored, an entry of the protected-name list.
C1_NeverDeletesProtected ==
    \A k \in 1..Len(deleter_calls) : ~NameProtected(deleter_calls[k].name)

\* C1 witness: the run deleted snapshots while a candidate whose name holds a
\* protected entry in another case was listed.
C1_Witness ==
    /\ pc = "done"
    /\ deleter_calls # <<>>
    /\ dependant_child
    /\ \E k \in 1..Len(Listed) :
          /\ CharPrefix(root_snapshotid, Listed[k].id)
          /\ NameProtected(Listed[k].name)
          /\ \A j \in 1..Len(protected_snapshots) :
                ~contains(Listed[k].name, protected_snapshots[j])

\* C2: with the empty root name and a non-empty listing, root resolution
\* succeeds, resolves to the unsuffixed identifier SnapshotName, and every
\* listed snapshot is a candidate.
C2_EmptyRootIsWholeTree ==
    (root_snapshot = <<>> /\ Listed # <<>> /\ pc # "start")
        => /\ pc # "failed"
           /\ root_snapshotid = SnapshotName
           /\ \A k \in 1..Len(Listed) :
                 \/ InSelection(Listed[k])
                 \/ NameProtected(Listed[k].name)
                 \/ (dependant_child /\ Listed[k].id = root_snapshotid)

\* C3: a protected-name list holding one empty string protects nothing: no
\* candidate is excluded as protected and every candidate is selected.
C3_EmptyEntryProtectsNothing ==
    (Resolved /\ protected_snapshots = << <<>> >>)
        => /\ ~dependant_child
           /\ \A k \in 1..Len(Listed) :
                 CharPrefix(root_snapshotid, Listed[k].id)
                     => InSelection(Listed[k])

\* C4 as stated: no snapshot whose identifier has the identifier of a
\* protected snapshot as a prefix is selected or passed to the deleter.
C4_SubtreeOfProtectedSkipped ==
    \A k \in 1..Len(Listed) : \A j \in 1..Len(Listed) :
        (NameProtected(Listed[j].name) /\ CharPrefix(Listed[j].id, Listed[k].id))
            => (~InSelection(Listed[k]) /\ ~PassedToDeleter(Listed[k]))

\* C4 amended: protection is by a snapshot's own name only.  A snapshot whose
\* name is protected is never selected; a candidate below a protected
\* snapshot whose own name is not protected, and which is not the root, is
\* selected, and has been passed to the deleter when a confirmed run ends.
C4_OnlyOwnNameProtects ==
    Resolved =>
      \A k \in 1..Len(Listed) :
        /\ NameProtected(Listed[k].name) => ~InSelection(Listed[k])
        /\ \A j \in 1..Len(Listed) :
             ( /\ NameProtected(Listed[j].name)
               /\ IsAncestor(Listed[j].id, Listed[k].id)
               /\ CharPrefix(root_snapshotid, Listed[k].id)
               /\ Listed[k].id # root_snapshotid
               /\ ~NameProtected(Listed[k].name) )
             => /\ InSelection(Listed[k])
                /\ (pc = "done" /\ Affirmative) => PassedToDeleter(Listed[k])

\* C4 witness: a confirmed run ended having deleted a snapshot that lies
\* below a protected candidate.
C4_Witness ==
    /\ pc = "done"
    /\ Affirmative
    /\ \E k \in 1..Len(Listed) : \E j \in 1..Len(Listed) :
          /\ NameProtected(Listed[j].name)
          /\ CharPrefix(root_snapshotid, Listed[j].id)
          /\ IsAncestor(Listed[j].id, Listed[k].id)
          /\ PassedToDeleter(Listed[k])

\* position of a selected snapshot in the listing
ListedAt(s) == CHOOSE k \in 1..Len(Listed) : Listed[k] = s

C6_ConfirmationGate ==
    /\ deleter_calls # <<>> => Affirmative
    /\ Affirmative => /\ pc \in {"deleting", "done"}
                      /\ pc = "done" => deleter_calls # <<>>
    /\ (answer # NoAnswer /\ ~Affirmative) => (pc = "done" /\ deleter_calls = <<>>)

\* C6 witness: the answer Y was accepted and the deleter ran.
C6_Witness == pc = "done" /\ answer = <<"Y">> /\ deleter_calls # <<>>

\* C7: after an affirmative answer the snapshots passed to the deleter are
\* the selection read from its last element to its first, whatever the
\* outcome of each invocation, and all of them once the run has ended.
C7_LiteralReversal ==
    Affirmative =>
      /\ Len(deleter_calls) <= Len(snaps_to_delete)
      /\ \A k \in 1..Len(deleter_calls) :
            deleter_calls[k] = snaps_to_delete[Len(snaps_to_delete) + 1 - k]
      /\ pc = "done" => Len(deleter_calls) = Len(snaps_to_delete)

\* C7 witness: the first deletion failed and the loop went on to delete a
\* snapshot of another name.
C7_Witness ==
    /\ pc = "done"
    /\ Len(deleter_calls) >= 2
    /\ output[1] = "ERROR"
    /\ output[2] = "DELETED"
    /\ deleter_calls[1].name # deleter_calls[2].name

\* no listed name equals the root name when case is ignored
NoNameMatches ==
    \A k \in 1..Len(Listed) :
        \/ Len(Listed[k].name) # Len(root_snapshot)
        \/ \E c \in 1..Len(root_snapshot) :
              LowerChar(Listed[k].name[c]) # LowerChar(root_snapshot[c])

ParentsFirst ==
    \A a, b \in 1..Len(Listed) :
        IsAncestor(Listed[a].id, Listed[b].id) => a < b

\* C9: when the listing has parents before children, a selected snapshot is
\* passed to the deleter only after every selected descendant of it.
C9_ChildBeforeParent ==
    ParentsFirst =>
      \A k \in 1..Len(deleter_calls) : \A j \in 1..Len(snaps_to_delete) :
          IsAncestor(deleter_calls[k].id, snaps_to_delete[j].id)
              => \E m \in 1..(k - 1) : deleter_calls[m] = snaps_to_delete[j]

\* C9 witness: a parent was deleted after its child.
C9_Witness ==
    /\ ParentsFirst
    /\ \E k \in 1..Len(deleter_calls) : \E m \in 1..(k - 1) :
          IsAncestor(deleter_calls[k].id, deleter_calls[m].id)

\* C10: a listed snapshot is a candidate exactly when the root identifier is
\* a prefix of its identifier character by character: only such snapshots
\* are selected, every such snapshot is selected unless it is protected or
\* is the root, and a protected one sets dependant_child.
C10_CandidateIsCharPrefix ==
    Resolved =>
      /\ \A k \in 1..Len(Listed) :
            /\ InSelection(Listed[k]) => CharPrefix(root_snapshotid, Listed[k].id)
            /\ ( /\ CharPrefix(root_snapshotid, Listed[k].id)
                 /\ Listed[k].id # root_snapshotid
                 /\ ~NameProtected(Listed[k].name) )
               => InSelection(Listed[k])
      /\ dependant_child <=>
            \E k \in 1..Len(Listed) :
                /\ CharPrefix(root_snapshotid, Listed[k].id)
                /\ NameProtected(Listed[k].name)

\* C10 witness: with root SnapshotName-1 its sibling SnapshotName-10 was
\* selected.
C10_Witness ==
    /\ Resolved
    /\ root_snapshotid = SnapshotName \o <<"-", "1">>
    /\ \E k \in 1..Len(snaps_to_delete) :
          snaps_to_delete[k].id = SnapshotName \o <<"-", "1", "0">>
====
